---- MODULE Spec2Model ----
(***************************************************************************)
(* NPK deployment pre-flight: generate() of index.js, the main IIFE and    *)
(* showHelpBanner().  generate() is an async function: it runs to its next *)
(* await, and is resumed when the awaited promise settles.  The variable   *)
(* pc is the await generate() is suspended at.  Remote calls settle in     *)
(* separate steps (the event loop's I/O callbacks); a continuation that is *)
(* runnable is run before any further I/O callback (microtasks first).     *)
(* JS objects are modelled as mappings, arrays as sequences, and the       *)
(* hosted zone name as a sequence of characters.                           *)
(***************************************************************************)
EXTENDS Integers, Sequences, FiniteSets, TLC

(***************************************************************************)
(* Bounds of the model.                                                    *)
(***************************************************************************)
MaxKeys == 2
MaxNameLen == 2
MaxValue == 2

(***************************************************************************)
(* Input universes.                                                        *)
(***************************************************************************)
KeyUniverse == {"route53Zone", "useSAML", "dnsNames"}
NameChars == {"c", "."}
AllRegions == {"us-east-1", "us-west-2"}
OptInStatuses == {"opt-in-not-required", "opted-in", "not-opted-in"}
AllCodes == {"L-3819A6DF", "L-7212CCBC", "L-1216C47A"}
ZoneSuffixes == {"a", "b"}
ZoneStates == {"available", "impaired"}

Undefined == "<undefined>"

\* Sequences over S of length at most n
SeqsUpTo(S, n) == UNION {[1..k -> S] : k \in 0..n}

\* Sequences whose elements have pairwise distinct images under key
DistinctBy(seqs, key(_)) ==
    {s \in seqs : \A i, j \in 1..Len(s) : key(s[i]) = key(s[j]) => i = j}

SettingValues(k) == IF k = "route53Zone" THEN {"Z123", ""} ELSE {"x"}

SettingEntries == UNION {[key : {k}, value : SettingValues(k)] : k \in KeyUniverse}

EntryKey(e) == e.key

\* The documents npk-settings.json may hold: entries with distinct keys
SettingsDocs == DistinctBy(SeqsUpTo(SettingEntries, MaxKeys), EntryKey)

\* Names a hosted zone may carry
ZoneNames == UNION {[1..k -> NameChars] : k \in 1..MaxNameLen}

RegionRowName(r) == r.RegionName

\* Responses of describeRegions: each region listed once
RegionResponses ==
    DistinctBy(SeqsUpTo([RegionName : AllRegions, OptInStatus : OptInStatuses],
                        Cardinality(AllRegions)), RegionRowName)

QuotaRowCode(q) == q.QuotaCode

\* Responses of listServiceQuotas: each quota code listed once
QuotaResponses ==
    DistinctBy(SeqsUpTo([QuotaCode : AllCodes, Value : 0..MaxValue],
                        Cardinality(AllCodes)), QuotaRowCode)

ZoneRowName(a) == a.ZoneName

\* Responses of describeAvailabilityZones: each zone listed once
AzResponses ==
    DistinctBy(SeqsUpTo([ZoneName : ZoneSuffixes, State : ZoneStates],
                        Cardinality(ZoneSuffixes)), ZoneRowName)

(***************************************************************************)
(* Helpers of the JS runtime, computed as the runtime computes them.       *)
(***************************************************************************)
\* Array.prototype.indexOf: 0-based index of the first occurrence, or -1
IndexOf(arr, e) ==
    IF \E i \in 1..Len(arr) : arr[i] = e
    THEN (CHOOSE i \in 1..Len(arr) : arr[i] = e /\ \A j \in 1..(i-1) : arr[j] # e) - 1
    ELSE -1

\* Array.prototype.filter
Filter(arr, Keep(_)) == SelectSeq(arr, Keep)

\* Array.prototype.map
Map(arr, F(_)) == [i \in 1..Len(arr) |-> F(arr[i])]

\* settings[k]: the value of the property, or undefined
Get(doc, k) ==
    IF \E i \in 1..Len(doc) : doc[i].key = k
    THEN doc[CHOOSE i \in 1..Len(doc) : doc[i].key = k].value
    ELSE Undefined

\* any defined value counts, the empty string too
TruthyIfDefined(v) == v # Undefined

\* !!v
Truthy(v) == v # Undefined /\ v # ""

\* Object.keys(settings)
Keys(doc) == Map(doc, EntryKey)

RECURSIVE StripTrailingDots(_)
\* every trailing "." is removed, not only the last character
StripTrailingDots(s) ==
    IF Len(s) > 0 /\ s[Len(s)] = "." THEN StripTrailingDots(SubSeq(s, 1, Len(s) - 1)) ELSE s

\* String.prototype.slice(0, -1)
SliceDropLast(s) == IF Len(s) = 0 THEN s ELSE SubSeq(s, 1, Len(s) - 1)

\* obj[k] = v
Put(obj, k, v) == [x \in DOMAIN obj \cup {k} |-> IF x = k THEN v ELSE obj[x]]

(***************************************************************************)
(* Program constants.                                                      *)
(***************************************************************************)
allowedSettings ==
    << "campaign_data_ttl", "campaign_max_price", "georestrictions", "route53Zone",
       "awsProfile", "criticalEventsSMS", "adminEmail", "sAMLMetadataFile",
       "sAMLMetadataUrl", "primaryRegion" >>

\* jsonnet/gpu_instance_families.json, in key order
families ==
    << [family |-> "g3", quotaCode |-> "L-3819A6DF"],
       [family |-> "g4", quotaCode |-> "L-3819A6DF"],
       [family |-> "p3", quotaCode |-> "L-7212CCBC"] >>

RECURSIVE ReduceCodes(_, _)
ReduceCodes(codes, fams) ==
    IF fams = <<>> THEN codes
    ELSE ReduceCodes(IF IndexOf(codes, Head(fams).quotaCode) = -1
                     THEN Append(codes, Head(fams).quotaCode)
                     ELSE codes,
                     Tail(fams))

quotaCodes == ReduceCodes(<<>>, families)

activeOptInStatuses == << "opt-in-not-required", "opted-in" >>

(***************************************************************************)
(* State.                                                                  *)
(***************************************************************************)
VARIABLES
    pc,                \* where generate() is suspended, or how it ended
    success,           \* what generate() returned: "unset", "true", "false"
    settings,          \* the parsed settings document
    validatedSettings, \* the snapshot under construction (fields assigned so far)
    zone,              \* <<name>> of the hosted zone once looked up, else <<>>
    regions,           \* the active regions, in the provider's order
    maxQuota,
    regionQuotas,      \* region -> (quota code -> value)
    quotaPromises,     \* region -> "pending" | "fulfilled" | "rejected"
    azs,               \* region -> sequence of zone names
    azPromises,        \* region -> "pending" | "fulfilled" | "rejected"
    call,              \* state of each remote call of the main line
    response,          \* <<value>> of the main-line promise just fulfilled, else <<>>
    data,              \* <<[op, region, rows]>> while a fan-out callback runs, else <<>>
    issued,            \* <<operation, argument>> -> number of calls issued
    sink,              \* operations invoked on the template engine, in order
    exported,          \* <<document>> handed to the template engine, else <<>>
    console,           \* messages printed, in order
    process            \* <<>> while the process runs, <<exit status>> after

vars == << pc, success, settings, validatedSettings, zone, regions, maxQuota, regionQuotas,
           quotaPromises, azs, azPromises, call, response, data, issued, sink, exported,
           console, process >>

NoMap == [x \in {} |-> 0]

MainCalls == {"getHostedZone", "describeRegions", "getRole", "render"}

Running == process = <<>>

\* the process runs and no callback of a fan-out is executing
Ready == Running /\ data = <<>>

\* one more call of op(arg) on the wire
Issue(log, op, arg) ==
    [x \in DOMAIN log \cup {<<op, arg>>} |->
        IF x = <<op, arg>>
        THEN (IF x \in DOMAIN log THEN log[x] ELSE 0) + 1
        ELSE log[x]]

Issued(op, arg) == IF <<op, arg>> \in DOMAIN issued THEN issued[<<op, arg>>] ELSE 0

\* console.log(...)
Log(out, tag, arg) == Append(out, <<tag, arg>>)

\* return v from generate()
Return(v) == pc' = "returned" /\ success' = v

Init ==
    /\ pc = "start"
    /\ success = "unset"
    /\ settings = <<>>
    /\ validatedSettings = NoMap
    /\ zone = <<>>
    /\ regions = <<>>
    /\ maxQuota = 0
    /\ regionQuotas = NoMap
    /\ quotaPromises = NoMap
    /\ azs = NoMap
    /\ azPromises = NoMap
    /\ call = [c \in MainCalls |-> "none"]
    /\ response = <<>>
    /\ data = <<>>
    /\ issued = NoMap
    /\ sink = <<>>
    /\ exported = <<>>
    /\ console = <<>>
    /\ process = <<>>

(***************************************************************************)
(* generate(), lines 15-41: banner, read npk-settings.json, authenticate.  *)
(***************************************************************************)
ReadSettings ==
    /\ Ready /\ pc = "start"
    /\ \/ /\ Return("false")
          /\ console' = Log(Log(console, "banner", ""), "unable-to-open-settings", "")
          /\ UNCHANGED settings
       \/ \E doc \in SettingsDocs :
             /\ settings' = doc
             /\ pc' = "awaitAuth"
             /\ console' = Log(console, "banner", "")
             /\ UNCHANGED success
    /\ UNCHANGED << data, validatedSettings, zone, regions, maxQuota, regionQuotas, quotaPromises,
                    azs, azPromises, call, response, issued, sink, exported, process >>

\* no key is ever reported
NotAllowedNever(e) == IndexOf(allowedSettings, e) < -1

NotAllowed(e) == IndexOf(allowedSettings, e) < 0

\* the keys reported by lines 60-62
badSettings(doc) == Filter(Keys(doc), NotAllowed)

RECURSIVE LogEach(_, _, _)
LogEach(out, tag, args) ==
    IF args = <<>> THEN out ELSE LogEach(Log(out, tag, Head(args)), tag, Tail(args))

(***************************************************************************)
(* generate(), lines 42-94: resumed after auth; whitelist the settings,    *)
(* then look up the hosted zone if one is set, else list the regions.      *)
(***************************************************************************)
Validate ==
    /\ Ready /\ pc = "awaitAuth"
    /\ LET bad == badSettings(settings) IN
       IF Len(bad) > 0
       THEN /\ Return("false")
            /\ console' = Log(LogEach(console, "invalid-setting-key", bad),
                              "fix-your-settings", "")
            /\ UNCHANGED << call, issued >>
       ELSE IF Truthy(Get(settings, "route53Zone"))
       THEN /\ pc' = "awaitHostedZone"
            /\ call' = [call EXCEPT !["getHostedZone"] = "pending"]
            /\ issued' = Issue(issued, "getHostedZone", Get(settings, "route53Zone"))
            /\ UNCHANGED << success, console >>
       ELSE /\ pc' = "awaitRegions"
            /\ call' = [call EXCEPT !["describeRegions"] = "pending"]
            /\ issued' = Issue(issued, "describeRegions", "us-east-1")
            /\ UNCHANGED << success, console >>
    /\ UNCHANGED << data, settings, validatedSettings, zone, regions, maxQuota, regionQuotas,
                    quotaPromises, azs, azPromises, response, sink, exported, process >>

(***************************************************************************)
(* A remote call of the main line settles: route53.getHostedZone,          *)
(* ec2.describeRegions, iam.getRole, sonnetry.render.                      *)
(***************************************************************************)
Values(c) ==
    CASE c = "getHostedZone" -> ZoneNames
      [] c = "describeRegions" -> RegionResponses
      [] OTHER -> {"ok"}

Fulfil(c) ==
    /\ Ready /\ call[c] = "pending"
    /\ \E v \in Values(c) : response' = <<v>>
    /\ call' = [call EXCEPT ![c] = "fulfilled"]
    /\ UNCHANGED << data, pc, success, settings, validatedSettings, zone, regions, maxQuota,
                    regionQuotas, quotaPromises, azs, azPromises, issued, sink,
                    exported, console, process >>

Reject(c) ==
    /\ Ready /\ call[c] = "pending"
    /\ response' = <<>>
    /\ call' = [call EXCEPT ![c] = "rejected"]
    /\ UNCHANGED << data, pc, success, settings, validatedSettings, zone, regions, maxQuota,
                    regionQuotas, quotaPromises, azs, azPromises, issued, sink,
                    exported, console, process >>

(***************************************************************************)
(* generate(), lines 75-94: resumed after getHostedZone.                   *)
(***************************************************************************)
HostedZoneResume ==
    /\ Ready /\ pc = "awaitHostedZone" /\ call["getHostedZone"] \in {"fulfilled", "rejected"}
    /\ IF call["getHostedZone"] = "fulfilled"
       THEN /\ zone' = response
            /\ validatedSettings' =
                   Put(validatedSettings, "dnsBaseName", SliceDropLast(response[1]))
            /\ console' = Log(console, "validated-route53Zone", "")
            /\ pc' = "awaitRegions"
            /\ call' = [call EXCEPT !["describeRegions"] = "pending"]
            /\ issued' = Issue(issued, "describeRegions", "us-east-1")
            /\ UNCHANGED success
       ELSE /\ Return("false")
            /\ console' = Log(console, "unable-to-retrieve-hosted-zone", "")
            /\ UNCHANGED << validatedSettings, zone, call, issued >>
    /\ response' = <<>>
    /\ UNCHANGED << data, settings, regions, maxQuota, regionQuotas, quotaPromises, azs,
                    azPromises, sink, exported, process >>

\* regions the account opted into are left out
ActiveRegionNotRequiredOnly(r) == r.OptInStatus = "opt-in-not-required"

\* line 97
ActiveRegion(r) == IndexOf(activeOptInStatuses, r.OptInStatus) > -1

\* fulfilled as soon as one promise is (Promise.any)
PromiseAny(promises) ==
    IF \E r \in DOMAIN promises : promises[r] = "fulfilled" THEN "fulfilled"
    ELSE IF \A r \in DOMAIN promises : promises[r] = "rejected" THEN "rejected"
    ELSE "pending"

\* waits for every promise and ignores rejections (Promise.allSettled)
PromiseAllSettled(promises) ==
    IF \A r \in DOMAIN promises : promises[r] # "pending" THEN "fulfilled" ELSE "pending"

\* a join that never settles
PromiseAllHangs(promises) == "pending"

\* Promise.all over the promises of a fan-out
PromiseAll(promises) ==
    IF \E r \in DOMAIN promises : promises[r] = "rejected" THEN "rejected"
    ELSE IF \A r \in DOMAIN promises : promises[r] = "fulfilled" THEN "fulfilled"
    ELSE "pending"

RECURSIVE IssueEach(_, _, _)
IssueEach(log, op, args) ==
    IF args = <<>> THEN log ELSE IssueEach(Issue(log, op, Head(args)), op, Tail(args))

\* the promises pushed by a reduce over the regions
FanOut(rs) == [r \in {rs[i] : i \in 1..Len(rs)} |-> "pending"]

(***************************************************************************)
(* generate(), lines 94-144: resumed after describeRegions; keep the       *)
(* active regions and start one listServiceQuotas per region.              *)
(***************************************************************************)
DescribeRegionsResume ==
    /\ Ready /\ pc = "awaitRegions" /\ call["describeRegions"] \in {"fulfilled", "rejected"}
    /\ IF call["describeRegions"] = "fulfilled"
       THEN LET rs == Map(Filter(response[1], ActiveRegion), RegionRowName) IN
            /\ regions' = rs
            /\ validatedSettings' = Put(validatedSettings, "providerRegions", rs)
            /\ console' = Log(console, "retrieved-all-active-regions", "")
            /\ quotaPromises' = FanOut(rs)
            /\ issued' = IssueEach(issued, "listServiceQuotas", rs)
            /\ pc' = "awaitQuotas"
            /\ UNCHANGED success
       ELSE /\ Return("false")
            /\ console' = Log(console, "unable-to-retrieve-region-list", "")
            /\ UNCHANGED << regions, validatedSettings, quotaPromises, issued >>
    /\ response' = <<>>
    /\ UNCHANGED << data, settings, zone, maxQuota, regionQuotas, azs, azPromises, call, sink,
                    exported, process >>

\* a continuation of generate() or of the main function is runnable
MicrotaskPending ==
    \/ pc \in {"returned", "threw"}
    \/ pc = "awaitQuotas" /\ PromiseAll(quotaPromises) # "pending"
    \/ pc = "awaitAzs" /\ PromiseAll(azPromises) # "pending"

\* a zero quota is kept by the filter
TrackedNonNegative(q) == IndexOf(quotaCodes, q.QuotaCode) > -1 /\ q.Value >= 0

\* line 132
TrackedPositive(q) == IndexOf(quotaCodes, q.QuotaCode) > -1 /\ q.Value > 0

\* the quota map is replaced by a map of the region at hand alone
RecordQuotaReplacesMap(st, region, q) ==
    LET sub == IF region \in DOMAIN st.regionQuotas THEN st.regionQuotas[region] ELSE NoMap
    IN [regionQuotas |-> Put(NoMap, region, Put(sub, q.QuotaCode, q.Value)),
        maxQuota |-> IF q.Value > st.maxQuota THEN q.Value ELSE st.maxQuota]

\* the maximum is overwritten by the row at hand
RecordQuotaLastWins(st, region, q) ==
    LET sub == IF region \in DOMAIN st.regionQuotas THEN st.regionQuotas[region] ELSE NoMap
    IN [regionQuotas |-> Put(st.regionQuotas, region, Put(sub, q.QuotaCode, q.Value)),
        maxQuota |-> q.Value]

\* lines 134-137, for one row
RecordQuota(st, region, q) ==
    LET sub == IF region \in DOMAIN st.regionQuotas THEN st.regionQuotas[region] ELSE NoMap
    IN [regionQuotas |-> Put(st.regionQuotas, region, Put(sub, q.QuotaCode, q.Value)),
        maxQuota |-> IF q.Value > st.maxQuota THEN q.Value ELSE st.maxQuota]

RECURSIVE RecordQuotas(_, _, _)
\* lines 131-138: the rows kept by the filter, in order
RecordQuotas(st, region, rows) ==
    IF rows = <<>> THEN st
    ELSE RecordQuotas(RecordQuota(st, region, Head(rows)), region, Tail(rows))

\* lines 129-139: the callback of one region's listServiceQuotas call
QuotaCallback(st, region, rows) == RecordQuotas(st, region, Filter(rows, TrackedPositive))

(***************************************************************************)
(* Lines 129-139: the listServiceQuotas call of one region succeeds and    *)
(* its callback records the region's positive tracked quotas.              *)
(***************************************************************************)
QuotaResolve(region) ==
    /\ Ready /\ ~MicrotaskPending
    /\ region \in DOMAIN quotaPromises /\ quotaPromises[region] = "pending"
    /\ \E rows \in QuotaResponses :
          LET st == QuotaCallback([regionQuotas |-> regionQuotas, maxQuota |-> maxQuota],
                                  region, rows)
          IN /\ data' = << [op |-> "listServiceQuotas", region |-> region, rows |-> rows] >>
             /\ regionQuotas' = st.regionQuotas
             /\ maxQuota' = st.maxQuota
    /\ quotaPromises' = [quotaPromises EXCEPT ![region] = "fulfilled"]
    /\ UNCHANGED << pc, success, settings, validatedSettings, zone, regions, azs, azPromises,
                    call, response, issued, sink, exported, console, process >>

\* a failed listServiceQuotas call is issued once more instead of rejecting
QuotaRejectRetries(region) ==
    /\ Ready /\ ~MicrotaskPending
    /\ region \in DOMAIN quotaPromises /\ quotaPromises[region] = "pending"
    /\ Issued("listServiceQuotas", region) = 1
    /\ issued' = Issue(issued, "listServiceQuotas", region)
    /\ UNCHANGED << data, pc, success, settings, validatedSettings, zone, regions, maxQuota,
                    regionQuotas, quotaPromises, azs, azPromises, call, response, sink,
                    exported, console, process >>

\* the listServiceQuotas call of one region fails
QuotaReject(region) ==
    /\ Ready /\ ~MicrotaskPending
    /\ region \in DOMAIN quotaPromises /\ quotaPromises[region] = "pending"
    /\ quotaPromises' = [quotaPromises EXCEPT ![region] = "rejected"]
    /\ UNCHANGED data
    /\ UNCHANGED << pc, success, settings, validatedSettings, zone, regions, maxQuota,
                    regionQuotas, azs, azPromises, call, response, issued, sink,
                    exported, console, process >>

\* the zero gate never closes
ZeroQuotaNever(m) == m < 0

\* line 146
ZeroQuota(m) == m = 0

\* a reference held in a field of validatedSettings
Ref(name) == << "ref", name >>

\* every region of the provider instead of the keys of obj
KeySeqAllRegions(obj) ==
    CHOOSE s \in [1..Cardinality(AllRegions) -> AllRegions] :
        \A k \in AllRegions : \E i \in 1..Len(s) : s[i] = k

\* Object.keys(obj), as a sequence without repetition
KeySeq(obj) ==
    CHOOSE s \in [1..Cardinality(DOMAIN obj) -> DOMAIN obj] :
        \A k \in DOMAIN obj : \E i \in 1..Len(s) : s[i] = k

(***************************************************************************)
(* generate(), lines 144-175: resumed at the quota join; stop at zero      *)
(* quota, else start one describeAvailabilityZones per region of the map.  *)
(***************************************************************************)
QuotaJoinResume ==
    /\ Ready /\ pc = "awaitQuotas" /\ PromiseAll(quotaPromises) # "pending"
    /\ IF PromiseAll(quotaPromises) = "rejected"
       THEN /\ pc' = "threw"
            /\ UNCHANGED << success, validatedSettings, azs, azPromises, issued, console >>
       ELSE IF ZeroQuota(maxQuota)
       THEN /\ Return("false")
            /\ console' = Log(console, "zero-gpu-spot-instances", "")
            /\ UNCHANGED << validatedSettings, azs, azPromises, issued >>
       ELSE /\ validatedSettings' = Put(validatedSettings, "quotas", Ref("regionQuotas"))
            /\ console' = Log(console, "retrieved-quotas", "")
            /\ azs' = [r \in DOMAIN FanOut(KeySeq(regionQuotas)) |-> <<>>]
            /\ azPromises' = FanOut(KeySeq(regionQuotas))
            /\ issued' = IssueEach(issued, "describeAvailabilityZones", KeySeq(regionQuotas))
            /\ pc' = "awaitAzs"
            /\ UNCHANGED success
    /\ UNCHANGED << settings, zone, regions, maxQuota, regionQuotas, quotaPromises, call,
                    response, sink, exported, process >>
    /\ UNCHANGED data

Available(a) == a.State = "available"

\* lines 166-170: the callback of one region's describeAvailabilityZones call
AzCallback(az, region, rows) ==
    [az EXCEPT ![region] = @ \o Map(Filter(rows, Available), ZoneRowName)]

(***************************************************************************)
(* Lines 166-170: the describeAvailabilityZones call of one region         *)
(* succeeds and its callback pushes the available zones.                   *)
(***************************************************************************)
AzResolve(region) ==
    /\ Ready /\ ~MicrotaskPending
    /\ region \in DOMAIN azPromises /\ azPromises[region] = "pending"
    /\ \E rows \in AzResponses :
          /\ data' = << [op |-> "describeAvailabilityZones", region |-> region,
                         rows |-> rows] >>
          /\ azs' = AzCallback(azs, region, rows)
    /\ azPromises' = [azPromises EXCEPT ![region] = "fulfilled"]
    /\ UNCHANGED << pc, success, settings, validatedSettings, zone, regions, maxQuota,
                    regionQuotas, quotaPromises, call, response, issued, sink, exported,
                    console, process >>

\* the describeAvailabilityZones call of one region fails
AzReject(region) ==
    /\ Ready /\ ~MicrotaskPending
    /\ region \in DOMAIN azPromises /\ azPromises[region] = "pending"
    /\ azPromises' = [azPromises EXCEPT ![region] = "rejected"]
    /\ UNCHANGED data
    /\ UNCHANGED << pc, success, settings, validatedSettings, zone, regions, maxQuota,
                    regionQuotas, quotaPromises, azs, call, response, issued, sink,
                    exported, console, process >>

(***************************************************************************)
(* generate(), lines 175-188: resumed at the zone join; look up the spot   *)
(* service-linked role.                                                    *)
(***************************************************************************)
AzJoinResume ==
    /\ Ready /\ pc = "awaitAzs" /\ PromiseAll(azPromises) # "pending"
    /\ IF PromiseAll(azPromises) = "rejected"
       THEN /\ pc' = "threw"
            /\ UNCHANGED << validatedSettings, call, issued, console >>
       ELSE /\ validatedSettings' =
                   Put(Put(validatedSettings, "regions", Ref("azs")), "spotslr_exists", TRUE)
            /\ console' = Log(console, "retrieved-availability-zones", "")
            /\ call' = [call EXCEPT !["getRole"] = "pending"]
            /\ issued' = Issue(issued, "getRole", "AWSServiceRoleForEC2Spot")
            /\ pc' = "awaitRole"
    /\ UNCHANGED << success, settings, zone, regions, maxQuota, regionQuotas, quotaPromises,
                    azs, azPromises, response, sink, exported, process >>
    /\ UNCHANGED data

\* the document a reader of validatedSettings sees
Document(vs, rq, az) ==
    [f \in DOMAIN vs |->
        CASE f = "quotas" -> rq
          [] f = "regions" -> az
          [] OTHER -> vs[f]]

\* the catch block leaves the flag alone
CatchRoleKeepsFlag(vs) == vs

\* lines 189-192: the lookup failed
CatchRole(vs) == Put(vs, "spotslr_exists", FALSE)

(***************************************************************************)
(* generate(), lines 185-199: resumed after getRole; record the flag,      *)
(* export the snapshot and start rendering.                                *)
(***************************************************************************)
GetRoleResume ==
    /\ Ready /\ pc = "awaitRole" /\ call["getRole"] \in {"fulfilled", "rejected"}
    /\ IF call["getRole"] = "fulfilled"
       THEN /\ UNCHANGED validatedSettings
            /\ console' = Log(console, "all-prerequisites-finished", "")
       ELSE /\ validatedSettings' = CatchRole(validatedSettings)
            /\ console' = Log(Log(console, "spot-slr-not-present", ""),
                              "all-prerequisites-finished", "")
    /\ exported' = << Document(validatedSettings', regionQuotas, azs) >>
    /\ sink' = sink \o << "export", "render" >>
    /\ call' = [call EXCEPT !["render"] = "pending"]
    /\ pc' = "awaitRender"
    /\ response' = <<>>
    /\ UNCHANGED << data, success, settings, zone, regions, maxQuota, regionQuotas, quotaPromises,
                    azs, azPromises, issued, process >>

(***************************************************************************)
(* generate(), lines 199-221: resumed after render; write and apply.       *)
(***************************************************************************)
RenderResume ==
    /\ Ready /\ pc = "awaitRender" /\ call["render"] \in {"fulfilled", "rejected"}
    /\ IF call["render"] = "rejected"
       THEN /\ Return("false")
            /\ console' = Log(console, "failed-to-generate-configurations", "")
            /\ UNCHANGED sink
       ELSE /\ sink' = sink \o << "write", "apply" >>
            /\ \/ /\ Return("false")
                  /\ console' = Log(Log(console, "configurations-updated", ""),
                                    "failed-to-apply-configuration", "")
               \/ /\ Return("true")
                  /\ console' = Log(Log(console, "configurations-updated", ""),
                                    "successfully-deployed", "")
    /\ response' = <<>>
    /\ UNCHANGED << data, settings, validatedSettings, zone, regions, maxQuota, regionQuotas,
                    quotaPromises, azs, azPromises, call, issued, exported, process >>

\* lines 223-228: the help pointer, then process.exit(1)
showHelpBanner ==
    /\ console' = Log(console, "deployment-failed-help", "discord")
    /\ process' = << 1 >>

(***************************************************************************)
(* The main function, lines 230-233, resumed when generate() has returned: *)
(* on failure the help banner and exit status 1; on success it ends and    *)
(* the process exits with status 0.                                        *)
(***************************************************************************)
MainResume ==
    /\ Ready /\ pc = "returned"
    /\ IF success # "true"
       THEN showHelpBanner
       ELSE /\ process' = << 0 >>
            /\ UNCHANGED console
    /\ pc' = "done"
    /\ UNCHANGED << data, success, settings, validatedSettings, zone, regions, maxQuota,
                    regionQuotas, quotaPromises, azs, azPromises, call, response,
                    issued, sink, exported >>

(***************************************************************************)
(* The main function when generate() has thrown: its await rethrows and    *)
(* nothing handles the rejection.  The runtime ends the process with       *)
(* status 1 (unhandled rejections as uncaught exceptions, the default), or *)
(* only warns (--unhandled-rejections=warn) and the process lives on until *)
(* no call is left in flight.                                              *)
(***************************************************************************)
MainUnhandled ==
    /\ Ready /\ pc = "threw"
    /\ \/ /\ process' = << 1 >>
          /\ console' = Log(console, "uncaught-exception", "")
       \/ /\ UNCHANGED process
          /\ console' = Log(console, "unhandled-rejection-warning", "")
    /\ pc' = "abandoned"
    /\ UNCHANGED << data, success, settings, validatedSettings, zone, regions, maxQuota,
                    regionQuotas, quotaPromises, azs, azPromises, call, response,
                    issued, sink, exported >>

\* the fan-out callback that is executing returns
CallbackReturn ==
    /\ Running /\ data # <<>>
    /\ data' = <<>>
    /\ UNCHANGED << pc, success, settings, validatedSettings, zone, regions, maxQuota,
                    regionQuotas, quotaPromises, azs, azPromises, call, response,
                    issued, sink, exported, console, process >>

InFlight ==
    \/ \E r \in DOMAIN quotaPromises : quotaPromises[r] = "pending"
    \/ \E r \in DOMAIN azPromises : azPromises[r] = "pending"

\* nothing is left to run after a rejection that was only warned about
Drained ==
    /\ Ready /\ pc = "abandoned" /\ ~InFlight
    /\ process' = << 0 >>
    /\ UNCHANGED << data, pc, success, settings, validatedSettings, zone, regions, maxQuota,
                    regionQuotas, quotaPromises, azs, azPromises, call, response,
                    issued, sink, exported, console >>

Next ==
    \/ ReadSettings
    \/ Validate
    \/ \E c \in MainCalls : Fulfil(c)
    \/ \E c \in MainCalls : Reject(c)
    \/ HostedZoneResume
    \/ DescribeRegionsResume
    \/ \E region \in AllRegions : QuotaResolve(region)
    \/ \E region \in AllRegions : QuotaReject(region)
    \/ QuotaJoinResume
    \/ \E region \in AllRegions : AzResolve(region)
    \/ \E region \in AllRegions : AzReject(region)
    \/ CallbackReturn
    \/ AzJoinResume
    \/ GetRoleResume
    \/ RenderResume
    \/ MainResume
    \/ MainUnhandled
    \/ Drained

Spec == Init /\ [][Next]_vars

\* the event loop runs a continuation that is runnable
Continue ==
    \/ ReadSettings
    \/ Validate
    \/ HostedZoneResume
    \/ DescribeRegionsResume
    \/ CallbackReturn
    \/ QuotaJoinResume
    \/ AzJoinResume
    \/ GetRoleResume
    \/ RenderResume
    \/ MainResume
    \/ MainUnhandled
    \/ Drained

\* the remote call c of the main line settles
Settle(c) == Fulfil(c) \/ Reject(c)

\* the probe of one region is in flight in a running process
Unsettled(promises, region) ==
    Running /\ region \in DOMAIN promises /\ promises[region] = "pending"

\* the runs in which the event loop keeps running, every remote call of the
\* main line settles, and no probe of a region stays in flight for ever
FairSpec ==
    /\ Spec
    /\ WF_vars(Continue)
    /\ \A c \in MainCalls : WF_vars(Settle(c))
    /\ \A region \in AllRegions :
          /\ []<>(~Unsettled(quotaPromises, region))
          /\ []<>(~Unsettled(azPromises, region))

(***************************************************************************)
(* Vocabulary of the properties.                                           *)
(***************************************************************************)
Elems(seq) == {seq[i] : i \in 1..Len(seq)}

SetMax(S) == IF S = {} THEN 0 ELSE CHOOSE m \in S : \A x \in S : x <= m

\* the quota probes have been started
QuotasFannedOut ==
    call["describeRegions"] = "fulfilled" /\ pc # "awaitRegions"

\* every quota probe has succeeded: the quota join is passed or can be
QuotasJoined == QuotasFannedOut /\ PromiseAll(quotaPromises) = "fulfilled"

\* every quota probe has succeeded or failed
QuotasSettled ==
    QuotasFannedOut /\ \A r \in DOMAIN quotaPromises : quotaPromises[r] # "pending"

RecordedValues ==
    UNION {{regionQuotas[r][c] : c \in DOMAIN regionQuotas[r]} : r \in DOMAIN regionQuotas}

AzIssued(r) == Issued("describeAvailabilityZones", r)

NoAzProbe == \A r \in AllRegions : AzIssued(r) = 0

NoRemoteProbe == issued = NoMap

NoSink == sink = <<>> /\ exported = <<>>

Failed == pc \in {"returned", "done", "threw", "abandoned"} /\ success # "true"

Printed(tag) == \E i \in 1..Len(console) : console[i][1] = tag

\* C1: once every quota probe has succeeded, maxQuota is the maximum of the
\* values recorded in the quota map, and 0 if the map is empty.
C1_MaxQuotaIsMaximum == QuotasJoined => maxQuota = SetMax(RecordedValues)

C1_Witness ==
    /\ QuotasJoined /\ pc = "awaitAzs"
    /\ \E r1, r2 \in DOMAIN regionQuotas :
          /\ r1 # r2
          /\ \A c \in DOMAIN regionQuotas[r1] : regionQuotas[r1][c] = 1
          /\ \E c \in DOMAIN regionQuotas[r2] : regionQuotas[r2][c] = 2
    /\ maxQuota = 2

\* C2: the zone map has exactly the provider regions with a positive quota
\* in the quota map as keys; a zone probe is issued only for a key of the
\* quota map, and once the zone stage is reached exactly once for each key.
C2_ZoneRegionsAreQuotaRegions ==
    /\ \A r \in AllRegions :
          /\ AzIssued(r) <= 1
          /\ AzIssued(r) = 1 => r \in DOMAIN regionQuotas
    /\ "quotas" \in DOMAIN validatedSettings =>
          \A r \in DOMAIN regionQuotas : AzIssued(r) = 1
    /\ "regions" \in DOMAIN validatedSettings =>
          LET doc == Document(validatedSettings, regionQuotas, azs) IN
          DOMAIN doc.regions =
             {r \in Elems(doc.providerRegions) :
                 /\ r \in DOMAIN doc.quotas
                 /\ \E c \in DOMAIN doc.quotas[r] : doc.quotas[r][c] > 0}

C2_Witness ==
    /\ "regions" \in DOMAIN validatedSettings
    /\ validatedSettings.providerRegions = << "us-east-1", "us-west-2" >>
    /\ DOMAIN azs = {"us-east-1"}
    /\ AzIssued("us-east-1") = 1 /\ AzIssued("us-west-2") = 0

\* C3: with every quota probe settled and maxQuota 0 the pipeline fails; no
\* zone probe and no role lookup is issued, nothing reaches the sink.
C3_ZeroQuotaStops ==
    (QuotasSettled /\ maxQuota = 0) =>
        /\ NoAzProbe
        /\ Issued("getRole", "AWSServiceRoleForEC2Spot") = 0
        /\ NoSink
        /\ pc = "awaitQuotas" \/ Failed

C3_Witness ==
    /\ QuotasJoined /\ Len(regions) = 2 /\ maxQuota = 0
    /\ Printed("zero-gpu-spot-instances")
    /\ process = << 1 >>

\* C4: a settings document with a key outside the allow-list fails
\* validation, exactly the offending keys are reported, no remote probe is
\* issued and the sink is never invoked.
OffendingKeys == {settings[i].key : i \in 1..Len(settings)} \ Elems(allowedSettings)

ReportedKeys ==
    {console[i][2] : i \in {j \in 1..Len(console) : console[j][1] = "invalid-setting-key"}}

C4_InvalidSettingsFailClosed ==
    (OffendingKeys # {} /\ pc \notin {"start", "awaitAuth"}) =>
        /\ success = "false"
        /\ ReportedKeys = OffendingKeys
        /\ NoRemoteProbe
        /\ NoSink

C4_Witness ==
    /\ Truthy(Get(settings, "route53Zone"))
    /\ OffendingKeys = {"useSAML"}
    /\ process = << 1 >>

\* Thresholds of the quota gate (deploy.sh, lines 476 and 489)
MinimumQuota == 4
RecommendedQuota == 40

\* generate() asks for no confirmation: the question is never printed
Confirmed == Printed("do-you-understand")

FatalCondition ==
    \/ pc = "returned" /\ success = "false" /\ Printed("unable-to-open-settings")
    \/ OffendingKeys # {} /\ pc \notin {"start", "awaitAuth"}
    \/ call["getHostedZone"] = "rejected"
    \/ call["describeRegions"] = "rejected"
    \/ \E r \in DOMAIN quotaPromises : quotaPromises[r] = "rejected"
    \/ \E r \in DOMAIN azPromises : azPromises[r] = "rejected"
    \/ QuotasJoined /\ maxQuota = 0
    \/ QuotasJoined /\ 0 < maxQuota /\ maxQuota < MinimumQuota
    \/ QuotasJoined /\ maxQuota = 1 /\ ~Confirmed

StagesCompleted ==
    /\ OffendingKeys = {}
    /\ call["getHostedZone"] \in {"none", "fulfilled"}
    /\ call["describeRegions"] = "fulfilled"
    /\ QuotasJoined
    /\ PromiseAll(azPromises) = "fulfilled"
    /\ call["getRole"] \in {"fulfilled", "rejected"}

\* C5: once a fatal condition has occurred the sink is never invoked; the
\* sink is invoked only after every preceding stage completed successfully.
C5_NoSinkAfterFatal ==
    /\ FatalCondition => NoSink
    /\ ~NoSink => StagesCompleted

\* C6: with maxQuota exactly 1 at the quota join, zone probing and the
\* snapshot need an affirmative confirmation; without it the pipeline fails.
C6_SingleUnitNeedsConfirmation ==
    (QuotasJoined /\ maxQuota = 1 /\ ~Confirmed) =>
        /\ NoAzProbe
        /\ NoSink
        /\ pc = "awaitQuotas" \/ Failed

\* C7: with 0 < maxQuota < 4 at the quota join the pipeline stops before any
\* zone probe and hands nothing to the sink; with 4 <= maxQuota < 40 it warns
\* and continues.
C7_BelowMinimumStops ==
    /\ (QuotasJoined /\ 0 < maxQuota /\ maxQuota < MinimumQuota) =>
          /\ NoAzProbe
          /\ NoSink
          /\ pc = "awaitQuotas" \/ Failed
    /\ (QuotasJoined /\ MinimumQuota <= maxQuota /\ maxQuota < RecommendedQuota
           /\ pc # "awaitQuotas") =>
          Printed("fewer-than-40-vcpus")

\* C8: the role lookup never fails the pipeline: once it has settled and
\* generate() has resumed, the snapshot is handed to the sink, and its
\* spotslr_exists flag is true exactly when the lookup succeeded.
C8_RoleLookupNeverFatal ==
    /\ (call["getRole"] \in {"fulfilled", "rejected"} /\ pc # "awaitRole") =>
          /\ exported # <<>>
          /\ Len(sink) >= 2 /\ sink[1] = "export" /\ sink[2] = "render"
    /\ exported # <<>> =>
          /\ "spotslr_exists" \in DOMAIN exported[1]
          /\ exported[1].spotslr_exists = (call["getRole"] = "fulfilled")

C8_Witness ==
    /\ call["getRole"] = "rejected"
    /\ exported # <<>> /\ exported[1].spotslr_exists = FALSE
    /\ success = "true" /\ process = << 0 >>

HelpPointer == << "deployment-failed-help", "discord" >>

\* C9: every failure ends with the help pointer printed last and a non-zero
\* exit status; success returns true, exits with status 0 and prints no
\* help pointer.
C9_ExitContract ==
    process # <<>> =>
        IF success = "true"
        THEN process = << 0 >> /\ ~Printed("deployment-failed-help")
        ELSE /\ process[1] # 0
             /\ console # <<>> /\ console[Len(console)] = HelpPointer

EndsWithDot(s) == Len(s) > 0 /\ s[Len(s)] = "."

\* C10: for a hosted zone name ending in ".", dnsBaseName is that name
\* without its last character, and is handed to the sink unchanged.
C10_TrailingDotRemoved ==
    (zone # <<>> /\ EndsWithDot(zone[1])) =>
        /\ "dnsBaseName" \in DOMAIN validatedSettings
        /\ validatedSettings.dnsBaseName \o << "." >> = zone[1]
        /\ exported # <<>> => exported[1].dnsBaseName = validatedSettings.dnsBaseName

C10_Witness ==
    /\ zone = << << "c", "." >> >>
    /\ exported # <<>> /\ exported[1].dnsBaseName = << "c" >>

\* the settings document asks for a DNS zone: a non-empty route53Zone
ZoneRequested ==
    \E i \in 1..Len(settings) :
        settings[i].key = "route53Zone" /\ settings[i].value # ""

HostedZoneLookups ==
    Cardinality({x \in DOMAIN issued : x[1] = "getHostedZone" /\ issued[x] > 0})

SnapshotHasDnsIffResolved ==
    exported # <<>> =>
        ("dnsBaseName" \in DOMAIN exported[1]
            <=> (ZoneRequested /\ call["getHostedZone"] = "fulfilled"))

UnresolvedZoneIsFatal ==
    (ZoneRequested /\ call["getHostedZone"] = "rejected" /\ pc # "awaitHostedZone") =>
        Failed /\ NoSink /\ Printed("unable-to-retrieve-hosted-zone")

\* C11 as stated: the zone lookup is issued exactly when the settings
\* document requests a DNS zone; the snapshot carries dnsBaseName exactly
\* when a zone was requested and resolved; an unresolved zone is fatal.
C11_LookupIffRequested ==
    /\ pc \notin {"start", "awaitAuth"} => (HostedZoneLookups > 0 <=> ZoneRequested)
    /\ SnapshotHasDnsIffResolved
    /\ UnresolvedZoneIsFatal

\* C11, amended: for a settings document that passed validation the zone
\* lookup is issued (once) exactly when the document requests a DNS zone; a
\* document with an invalid key issues no lookup; the snapshot carries
\* dnsBaseName exactly when a zone was requested and resolved; an unresolved
\* zone is fatal.
C11_LookupIffRequestedAndValid ==
    /\ pc \notin {"start", "awaitAuth"} =>
          /\ HostedZoneLookups <= 1
          /\ HostedZoneLookups = 1 <=> (ZoneRequested /\ OffendingKeys = {})
    /\ SnapshotHasDnsIffResolved
    /\ UnresolvedZoneIsFatal

C11_Witness ==
    /\ ZoneRequested /\ OffendingKeys = {}
    /\ call["getHostedZone"] = "rejected"
    /\ HostedZoneLookups = 1
    /\ process = << 1 >>

\* the positions of a describeRegions response that list an active region
ActiveIndexes(raw) ==
    {i \in 1..Len(raw) : raw[i].OptInStatus \in {"opt-in-not-required", "opted-in"}}

\* their region names, in the order of the response
ActiveNamesInOrder(raw) ==
    [k \in 1..Cardinality(ActiveIndexes(raw)) |->
        raw[CHOOSE i \in ActiveIndexes(raw) :
                Cardinality({j \in ActiveIndexes(raw) : j < i}) = k - 1].RegionName]

QuotaIssued(r) == Issued("listServiceQuotas", r)

\* C12: the enumeration keeps exactly the listed regions whose opt-in status
\* is opt-in-not-required or opted-in, in the provider's order; providerRegions
\* of the snapshot is that whole sequence, also for regions without quota; a
\* failed describeRegions fails the pipeline with no quota probe issued.
C12_RegionEnumeration ==
    /\ [][(pc = "awaitRegions" /\ call["describeRegions"] = "fulfilled") =>
            /\ regions' = ActiveNamesInOrder(response[1])
            /\ validatedSettings'.providerRegions = ActiveNamesInOrder(response[1])]_vars
    /\ []("providerRegions" \in DOMAIN validatedSettings =>
            /\ validatedSettings.providerRegions = regions
            /\ DOMAIN regionQuotas \subseteq Elems(regions)
            /\ exported # <<>> => exported[1].providerRegions = regions)
    /\ []((call["describeRegions"] = "rejected" /\ pc # "awaitRegions") =>
            /\ Failed /\ NoSink
            /\ \A r \in AllRegions : QuotaIssued(r) = 0)

C12_Witness ==
    /\ exported # <<>>
    /\ exported[1].providerRegions = << "us-west-2", "us-east-1" >>
    /\ DOMAIN exported[1].quotas = {"us-east-1"}

AllSettled(promises) == \A r \in DOMAIN promises : promises[r] # "pending"

AllFulfilled(promises) == \A r \in DOMAIN promises : promises[r] = "fulfilled"

RoleIssued == Issued("getRole", "AWSServiceRoleForEC2Spot")

\* C13: no zone probe is issued before every quota probe has settled; the
\* role lookup and the sink come only after every zone probe has settled; the
\* quota map and the zone map are read into the snapshot only after their join.
C13_JoinsAreBarriers ==
    /\ ~NoAzProbe => QuotasFannedOut /\ AllSettled(quotaPromises)
    /\ "quotas" \in DOMAIN validatedSettings =>
          QuotasFannedOut /\ AllFulfilled(quotaPromises)
    /\ (RoleIssued > 0 \/ ~NoSink) =>
          "regions" \in DOMAIN validatedSettings /\ AllSettled(azPromises)
    /\ "regions" \in DOMAIN validatedSettings =>
          /\ "quotas" \in DOMAIN validatedSettings
          /\ DOMAIN azPromises = DOMAIN regionQuotas
          /\ AllFulfilled(azPromises)

C13_Witness ==
    /\ pc = "awaitAzs"
    /\ DOMAIN quotaPromises = AllRegions /\ AllFulfilled(quotaPromises)
    /\ azPromises = [r \in AllRegions |-> IF r = "us-east-1" THEN "pending" ELSE "fulfilled"]
    /\ RoleIssued = 0 /\ NoSink

\* a step of the pipeline has failed
StepFailed ==
    \/ Failed
    \/ \E r \in DOMAIN quotaPromises : quotaPromises[r] = "rejected"
    \/ \E r \in DOMAIN azPromises : azPromises[r] = "rejected"
    \/ \E c \in {"getHostedZone", "describeRegions", "render"} : call[c] = "rejected"

\* C14: once a step has failed, also a join with probes still in flight, the
\* pipeline stays failed: no further remote probe is issued, the sink is not
\* invoked, and generate() never returns true, whatever completes later.
C14_FailedIsTerminal ==
    [][StepFailed =>
          /\ StepFailed'
          /\ issued' = issued
          /\ sink' = sink /\ exported' = exported
          /\ success' # "true"]_vars

C14_Witness ==
    /\ pc = "abandoned" /\ Running
    /\ \E r1, r2 \in DOMAIN quotaPromises :
          /\ quotaPromises[r1] = "rejected"
          /\ quotaPromises[r2] = "fulfilled" /\ r2 \in DOMAIN regionQuotas
    /\ NoAzProbe /\ NoSink

\* C15: no probe is retried and one failed probe fails its join: each active
\* region gets exactly one quota probe, each region of the quota map exactly
\* one zone probe; after a failed quota probe no zone probe is issued, after a
\* failed probe of either kind the next stage is not entered and no snapshot,
\* not even a partial one, reaches the sink.
C15_OneProbePerRegionNoPartial ==
    /\ \A r \in AllRegions : QuotaIssued(r) <= 1 /\ AzIssued(r) <= 1
    /\ QuotasFannedOut =>
          \A r \in AllRegions : QuotaIssued(r) = IF r \in Elems(regions) THEN 1 ELSE 0
    /\ "quotas" \in DOMAIN validatedSettings =>
          \A r \in AllRegions : AzIssued(r) = IF r \in DOMAIN regionQuotas THEN 1 ELSE 0
    /\ (\E r \in DOMAIN quotaPromises : quotaPromises[r] = "rejected") =>
          /\ NoAzProbe /\ RoleIssued = 0 /\ NoSink
          /\ "quotas" \notin DOMAIN validatedSettings
          /\ pc = "awaitQuotas" \/ Failed
    /\ (\E r \in DOMAIN azPromises : azPromises[r] = "rejected") =>
          /\ RoleIssued = 0 /\ NoSink
          /\ "regions" \notin DOMAIN validatedSettings
          /\ pc = "awaitAzs" \/ Failed

C15_Witness ==
    /\ \E r1, r2 \in DOMAIN azPromises :
          /\ azPromises[r1] = "rejected"
          /\ azPromises[r2] = "fulfilled" /\ azs[r2] # <<>>
    /\ process # <<>> /\ NoSink

\* this step is the completion of the probe of region r
Completes(promises, promisesNext, r) ==
    /\ r \in DOMAIN promises /\ promises[r] = "pending"
    /\ promisesNext[r] # "pending"

\* C16: the completion of region r's quota probe writes quotas[r] and
\* maxQuota only: every other region's sub-map, presence in the map and
\* promise stay as they were, and so does the zone map; the completion of
\* region r's zone probe writes zones[r] only: every other region's zone
\* list, the quota map and maxQuota stay as they were.
C16_PerRegionWritesDisjoint ==
    [][\A r \in AllRegions :
          /\ Completes(quotaPromises, quotaPromises', r) =>
                /\ \A r2 \in AllRegions \ {r} :
                      /\ r2 \in DOMAIN regionQuotas' <=> r2 \in DOMAIN regionQuotas
                      /\ r2 \in DOMAIN regionQuotas => regionQuotas'[r2] = regionQuotas[r2]
                      /\ r2 \in DOMAIN quotaPromises => quotaPromises'[r2] = quotaPromises[r2]
                /\ azs' = azs /\ azPromises' = azPromises
          /\ Completes(azPromises, azPromises', r) =>
                /\ DOMAIN azs' = DOMAIN azs
                /\ \A r2 \in DOMAIN azs \ {r} :
                      azs'[r2] = azs[r2] /\ azPromises'[r2] = azPromises[r2]
                /\ regionQuotas' = regionQuotas /\ maxQuota' = maxQuota
                /\ quotaPromises' = quotaPromises]_vars

C16_Witness ==
    /\ DOMAIN regionQuotas = AllRegions
    /\ regionQuotas["us-east-1"] # regionQuotas["us-west-2"]
    /\ DOMAIN azs = AllRegions
    /\ azs["us-east-1"] = << "a", "b" >> /\ azs["us-west-2"] = << "b" >>
    /\ AllFulfilled(azPromises)

\* the latest fan-out callback was the one of a listServiceQuotas call
QuotaData == data # <<>> /\ data[1].op = "listServiceQuotas"

\* the rows of a response that report a positive quota of a tracked code
PositiveTracked(rows) ==
    {i \in 1..Len(rows) : rows[i].QuotaCode \in Elems(quotaCodes) /\ rows[i].Value > 0}

\* C17: the quota map is sparse and positive.  The tracked codes are
\* without repetition; every recorded entry has a tracked code and a value
\* above 0; no region key has an empty sub-map; right after a region's
\* callback, the region is a key exactly if its response has a positive
\* tracked row, and its entries are the values of exactly those rows; an
\* entry once written never changes.
C17_QuotaMapSparsePositive ==
    /\ [](\A i, j \in 1..Len(quotaCodes) : quotaCodes[i] = quotaCodes[j] => i = j)
    /\ [](\A r \in DOMAIN regionQuotas :
             /\ DOMAIN regionQuotas[r] # {}
             /\ \A c \in DOMAIN regionQuotas[r] :
                   c \in Elems(quotaCodes) /\ regionQuotas[r][c] > 0)
    /\ [](QuotaData =>
             LET r == data[1].region
                 rows == data[1].rows
             IN /\ r \in DOMAIN regionQuotas <=> PositiveTracked(rows) # {}
                /\ r \in DOMAIN regionQuotas =>
                      /\ DOMAIN regionQuotas[r] =
                            {rows[i].QuotaCode : i \in PositiveTracked(rows)}
                      /\ \A i \in PositiveTracked(rows) :
                            regionQuotas[r][rows[i].QuotaCode] = rows[i].Value)
    /\ [][\A r \in DOMAIN regionQuotas :
             r \in DOMAIN regionQuotas' /\ regionQuotas'[r] = regionQuotas[r]]_vars

C17_Witness ==
    /\ QuotaData
    /\ LET rows == data[1].rows
       IN /\ PositiveTracked(rows) # {}
          /\ \E i \in 1..Len(rows) :
                rows[i].QuotaCode \in Elems(quotaCodes) /\ rows[i].Value = 0
          /\ \E i \in 1..Len(rows) :
                rows[i].QuotaCode \notin Elems(quotaCodes) /\ rows[i].Value > 0
    /\ \E r \in DOMAIN quotaPromises :
          quotaPromises[r] = "fulfilled" /\ r \notin DOMAIN regionQuotas

\* the fields of the snapshot
SnapshotFields == {"quotas", "regions", "providerRegions", "dnsBaseName", "spotslr_exists"}

\* C18: the document handed to the template engine is the snapshot of that
\* moment, and from then on no step changes a field of the snapshot or the
\* document handed over: no probe completes late and the pipeline writes
\* no field after line 196.
C18_SnapshotImmutableAfterSink ==
    /\ [](exported # <<>> =>
             exported[1] = Document(validatedSettings, regionQuotas, azs))
    /\ [][exported # <<>> =>
             /\ exported' = exported
             /\ Document(validatedSettings', regionQuotas', azs') =
                   Document(validatedSettings, regionQuotas, azs)
             /\ maxQuota' = maxQuota /\ regions' = regions
             /\ quotaPromises' = quotaPromises /\ azPromises' = azPromises]_vars

C18_Witness ==
    /\ exported # <<>> /\ process # <<>>
    /\ SnapshotFields \subseteq DOMAIN exported[1]
    /\ exported[1].spotslr_exists = FALSE
    /\ DOMAIN exported[1].quotas = AllRegions
    /\ exported[1].regions["us-west-2"] # <<>>

\* generate() returned true
SnapshotReady == pc \in {"returned", "done"} /\ success = "true"

\* a probe of the join is pending and none of its probes failed
Stalled(promises) ==
    /\ \E r \in DOMAIN promises : promises[r] = "pending"
    /\ \A r \in DOMAIN promises : promises[r] # "rejected"

\* C19: when the event loop keeps running and every issued remote call
\* settles, the pipeline ends, with the snapshot ready or failed, and the
\* process exits; and while a probe of a join is pending and no probe of
\* that join failed, generate() stays at that join: no step releases it.
C19_TerminatesUnlessStalled ==
    /\ <>(SnapshotReady \/ Failed)
    /\ <>(process # <<>>)
    /\ [][/\ (pc = "awaitQuotas" /\ Stalled(quotaPromises) /\ Stalled(quotaPromises'))
                => pc' = "awaitQuotas"
          /\ (pc = "awaitAzs" /\ Stalled(azPromises) /\ Stalled(azPromises'))
                => pc' = "awaitAzs"]_vars
    /\ [](pc = "awaitQuotas" /\ Stalled(quotaPromises) => ~ENABLED QuotaJoinResume)
    /\ [](pc = "awaitAzs" /\ Stalled(azPromises) => ~ENABLED AzJoinResume)

C19_Witness ==
    /\ pc = "awaitAzs" /\ Stalled(azPromises)
    /\ \E r \in DOMAIN azPromises : azPromises[r] = "fulfilled"

\* the latest fan-out callback was the one of a describeAvailabilityZones call
AzData == data # <<>> /\ data[1].op = "describeAvailabilityZones"

\* region r's probe is the only one of the fan-out that has settled
OnlySettled(promises, r) ==
    /\ r \in DOMAIN promises /\ promises[r] = "fulfilled"
    /\ \A o \in DOMAIN promises \ {r} : promises[o] = "pending"

\* the positions of a describeAvailabilityZones response that list an
\* available zone
AvailableIndexes(rows) == {i \in 1..Len(rows) : rows[i].State = "available"}

\* their zone names, in the order of the response
AvailableNamesInOrder(rows) ==
    [k \in 1..Cardinality(AvailableIndexes(rows)) |->
        rows[CHOOSE i \in AvailableIndexes(rows) :
                 Cardinality({j \in AvailableIndexes(rows) : j < i}) = k - 1].ZoneName]

\* lines 122-123, before any callback
FirstQuotas == [regionQuotas |-> NoMap, maxQuota |-> 0]

\* the outcome of each region's quota callback when it is the first to run,
\* for each response
FirstOutcome ==
    {[region |-> r, rows |-> d, st |-> QuotaCallback(FirstQuotas, r, d)] :
        r \in AllRegions, d \in QuotaResponses}

\* the responses with which region r's quota callback, run first, gives the
\* quota map and the maximum of now
FirstOutcomes(r) ==
    {o.rows : o \in {f \in FirstOutcome :
                        /\ f.region = r
                        /\ f.st.maxQuota = maxQuota
                        /\ f.st.regionQuotas = regionQuotas}}

\* the same for region r's zone callback and the zone map of now
FirstZoneOutcomes(r) ==
    {d \in AzResponses : AzCallback([o \in DOMAIN azs |-> <<>>], r, d) = azs}

\* C20: the order of completion does not matter.  When region r2's quota
\* probe completes after region r1's, the quota map and maxQuota are those
\* of the run in which the same two responses arrive in the other order,
\* and so is the decision of the zero gate; when region r2's zone probe
\* completes after region r1's, the zone map is that of the other order;
\* and each region's zone list is the available zones of its response in
\* the provider's order.
C20_CompletionOrderIrrelevant ==
    /\ [][\A r1, r2 \in AllRegions :
             (/\ r1 # r2 /\ OnlySettled(quotaPromises, r1)
              /\ r2 \in DOMAIN quotaPromises /\ quotaPromises'[r2] = "fulfilled")
             => /\ FirstOutcomes(r1) # {}
                /\ \A d1 \in FirstOutcomes(r1) :
                      LET other == QuotaCallback(
                                      QuotaCallback(FirstQuotas, r2, data'[1].rows), r1, d1)
                      IN /\ regionQuotas' = other.regionQuotas
                         /\ maxQuota' = other.maxQuota
                         /\ ZeroQuota(maxQuota') <=> ZeroQuota(other.maxQuota)]_vars
    /\ [][\A r1, r2 \in AllRegions :
             (/\ r1 # r2 /\ OnlySettled(azPromises, r1)
              /\ r2 \in DOMAIN azPromises /\ azPromises'[r2] = "fulfilled")
             => /\ FirstZoneOutcomes(r1) # {}
                /\ \A d1 \in FirstZoneOutcomes(r1) :
                      azs' = AzCallback(AzCallback([r \in DOMAIN azs |-> <<>>],
                                                   r2, data'[1].rows), r1, d1)]_vars
    /\ [](AzData => azs[data[1].region] = AvailableNamesInOrder(data[1].rows))

C20_Witness ==
    /\ AzData /\ AllFulfilled(azPromises)
    /\ DOMAIN azs = AllRegions
    /\ azs[data[1].region] = << "b", "a" >>
    /\ \E r \in AllRegions \ {data[1].region} : azs[r] = << "a" >>
    /\ \E r1, r2 \in AllRegions :
          \A c \in DOMAIN regionQuotas[r2] :
             \E c1 \in DOMAIN regionQuotas[r1] : regionQuotas[r1][c1] > regionQuotas[r2][c]
====
